---- MODULE Spec2Model ----
(***************************************************************************)
(* Backgrid ObjectCell extension (backgrid-object-cell.js): a state        *)
(* machine of one record shown in a grid row with two cells, an ObjectCell *)
(* on column "address" and an ArrayObjectCell on column "tags", their      *)
(* editors, the Bootstrap modal dialogs the editors open, and the UI       *)
(* events that drive them.                                                 *)
(*                                                                         *)
(* Every handler runs to completion (single-threaded event loop), so each  *)
(* UI event is one action.  A handler is written as a function from a      *)
(* "world" record to a world record; a thrown exception stops the rest of  *)
(* the handler and keeps the writes made before it.                        *)
(***************************************************************************)
EXTENDS Integers, Sequences, FiniteSets, TLC

VARIABLES
  attrs,     \* the record: column name -> attribute value
  editable,  \* column name -> the column's editable() flag
  cells,     \* column name -> the cell view of that column
  editors,   \* sequence of editor instances, one per `new this.editor(...)`
  dialogs,   \* sequence of modal dialogs, one per createDialog()
  log,       \* what the last handler did, in order
  thrown     \* the exception the last handler ended with, or NoError

vars == <<attrs, editable, cells, editors, dialogs, log, thrown>>

(***************************************************************************)
(* Bounds of the model.                                                    *)
(***************************************************************************)
MaxSessions == 2     \* editor instances created in one behaviour
MaxRows == 2         \* rows of the scratch row-collection

(***************************************************************************)
(* JavaScript values.  A value is <<type, representation>>; an object is a *)
(* function from its possible keys to values, Undef standing for a key     *)
(* that is absent (get() reads both as undefined).                         *)
(***************************************************************************)
Undef == <<"undefined", "">>
Str(s) == <<"string", s>>
Num(s) == <<"number", s>>

\* A nested object or array: a mutable value with an identity.  Two values
\* are the same object exactly when their identities are equal; as a string
\* it reads "[object Object]".
Ref(id) == <<"object", "[object Object]", id>>
isRef(v) == v[1] = "object"

Keys == {"street", "city"}
Columns == {"address", "tags"}
CellOrder == <<"address", "tags">>   \* order in which the row built its cells

EmptyObject == [k \in Keys |-> Undef]

\* _.clone of a plain object: a new object with the same top-level values.
clone(object) == [k \in DOMAIN object |-> object[k]]

\* Backbone.Model#get on a scratch record.
get(object, name) == IF name \in DOMAIN object THEN object[name] ELSE Undef

\* Backbone.Model#toJSON: _.clone(this.attributes).
toJSON(object) == clone(object)

\* An underscore template's <%= x %>: null and undefined print as "", every
\* other value as its string, with no HTML escaping.
templatePrint(v) == IF v[1] = "undefined" THEN "" ELSE v[2]

\* A text with a double quote in it, and the part of it before the quote.
Quoted == "A\"B"
BeforeQuote == "A"

\* What the HTML parser reads as the value of  value="<text>" : the text up
\* to its first double quote.
htmlAttributeValue(text) == IF text = Quoted THEN BeforeQuote ELSE text

(***************************************************************************)
(* Cell options.  An option value is [kind, entries]; a schema of kind     *)
(* "array" carries its field entries.                                      *)
(***************************************************************************)
OptNames == {"schema", "backgrid", "gridOptions"}

Absent == [kind |-> "absent", entries |-> <<>>]      \* undefined
Null == [kind |-> "null", entries |-> <<>>]          \* a falsy value
Schema(entries) == [kind |-> "array", entries |-> entries]
BareObject == [kind |-> "object", entries |-> <<>>]  \* {name:.., label:..}
DefaultGrid == [kind |-> "Backgrid.Grid", entries |-> <<>>]
CustomGrid == [kind |-> "CustomGrid", entries |-> <<>>]
EmptyGridOptions == [kind |-> "{}", entries |-> <<>>]
GridColumns == [kind |-> "{columns}", entries |-> <<>>]

Field(name, label, placeholder) ==
  [kind |-> "object", name |-> name, label |-> label, placeholder |-> placeholder]
NullEntry == [kind |-> "null", name |-> "", label |-> "", placeholder |-> Undef]
StringEntry == [kind |-> "string", name |-> "", label |-> "", placeholder |-> Undef]

Street == Field("street", "Street", Undef)
City == Field("city", "City", Str("Town"))
CityNoLabel == Field("city", "", Undef)

truthy(v) == v.kind \notin {"absent", "null"}
isArray(v) == v.kind = "array"

\* ObjectCell.editorOptionDefaults and ArrayObjectCell.editorOptionDefaults.
editorOptionDefaults(cls) ==
  IF cls = "ObjectCell"
  THEN [n \in {"schema"} |-> Schema(<<>>)]
  ELSE [n \in {"backgrid", "gridOptions"} |->
          IF n = "backgrid" THEN DefaultGrid ELSE EmptyGridOptions]

CellClass(c) == IF c = "address" THEN "ObjectCell" ELSE "ArrayObjectCell"

\* ObjectCell.initialize, the loop over editorOptionDefaults: the value the
\* cell already has under the name (from its class), the default when that is
\* falsy, the option supplied at construction when that is truthy.
initialize(cls, proto, options) ==
  [opt \in DOMAIN editorOptionDefaults(cls) |->
     LET own == IF ~truthy(proto[opt]) THEN editorOptionDefaults(cls)[opt]
                ELSE proto[opt]
     IN IF truthy(options[opt]) THEN options[opt] ELSE own]

NoOptions == [n \in OptNames |-> Absent]
With(opts, name, v) == [opts EXCEPT ![name] = v]

\* JSON.stringify of the attribute, shown in the cell; the editor's own
\* (empty) element while the base class has swapped the editor in.
Display(col, value) == [kind |-> "display", col |-> col, value |-> value]

(***************************************************************************)
(* Inputs the model draws from.                                            *)
(***************************************************************************)
Row(id, name) == [id |-> id, name |-> name]
Row1 == Row(Num("1"), Str("a"))
Row2 == Row(Num("2"), Str("b"))
Row1b == Row(Num("1"), Str("b"))
RowNew == Row(Undef, Str("c"))
RowNested == Row(Num("3"), Ref("meta"))
AddRows == {RowNew}

\* The records the grid row is built on: the documented one, one with a
\* number, an absent field and rows of the same id, one with a double quote
\* and nested objects.
Records ==
  { [address |-> [street |-> Str("A"), city |-> Str("X")], tags |-> <<Row1, Row2>>],
    [address |-> [street |-> Num("5"), city |-> Undef], tags |-> <<Row1, Row1b>>],
    [address |-> [street |-> Str(Quoted), city |-> Ref("geo")], tags |-> <<RowNested>>] }

\* The values the application sets while a session is open.
HostValues ==
  [c \in Columns |-> IF c = "address" THEN [street |-> Num("5"), city |-> Undef]
                     ELSE <<>>]

\* column.editable() of the two columns
EditableChoices ==
  { [c \in Columns |-> TRUE], [c \in Columns |-> c # "address"],
    [c \in Columns |-> c # "tags"] }

Texts == {"B"}           \* what the user types into an input
Names == {"c"}           \* what the user types into a nested-grid name cell

\* (value the cell class carries under "schema", option given at construction)
AddressConfigs ==
  { <<Absent, Absent>>,
    <<Schema(<<Street, City>>), Absent>>,
    <<Schema(<<Street, City>>), Schema(<<Street>>)>>,
    <<Absent, Schema(<<Street, Street>>)>>,
    <<Schema(<<Street>>), Null>>,
    <<Absent, BareObject>>,
    <<Absent, Schema(<<Street, CityNoLabel>>)>>,
    <<Absent, Schema(<<Street, NullEntry>>)>>,
    <<Absent, Schema(<<StringEntry>>)>> }
TagsConfigs ==
  { <<Absent, Absent>>, <<CustomGrid, GridColumns>> }

\* The configurations of the row's two cells: every schema beside the default
\* nested grid, and a custom nested grid beside the documented schema.
CellConfigs ==
  { <<ac, tc>> \in AddressConfigs \X TagsConfigs :
      tc = <<Absent, Absent>> \/ ac = <<Schema(<<Street, City>>), Absent>> }

(***************************************************************************)
(* The world a handler runs in, and the control flow of a handler.         *)
(***************************************************************************)
NoError == "none"

World ==
  [attrs |-> attrs, cells |-> cells, editors |-> editors, dialogs |-> dialogs,
   log |-> <<>>, thrown |-> NoError]

Ev(op, col, ed, n) == [op |-> op, col |-> col, ed |-> ed, n |-> n]
Emit(w, e) == [w EXCEPT !.log = Append(@, e)]
Throw(w, err) == [w EXCEPT !.thrown = err]

\* Statement sequencing: the next statement runs unless one before it threw.
Then(w, F(_)) == IF w.thrown # NoError THEN w ELSE F(w)

KeyEnter == 13    \* new Backgrid.Command({keyCode:13})
KeyEscape == 27   \* new Backgrid.Command({keyCode:27})

(***************************************************************************)
(* Views of the host grid framework (Backgrid), as the extension calls     *)
(* into them.                                                              *)
(***************************************************************************)
EditorSurface(col) == [kind |-> "editor", col |-> col, value |-> <<>>]

\* Backgrid.Cell#render: the formatted attribute, and delegateEvents().
render(w, c) ==
  [w EXCEPT !.cells[c].content = Display(c, w.attrs[c]),
            !.cells[c].delegated = TRUE]

\* The cell's listener on "change:<column name>" (Backgrid.Cell#initialize):
\* re-render unless the cell shows an editor.
onChange(w, c) ==
  IF w.cells[c].removed \/ w.cells[c].hasEditorClass THEN w ELSE render(w, c)

\* Backbone.Model#set(name, value) on the record, called by editor `by` (0: by
\* the application).
modelSet(w, col, value, by) ==
  LET w1 == Emit([w EXCEPT !.attrs[col] = value], Ev("set", col, by, 0))
  IN IF value = w.attrs[col] THEN w1 ELSE onChange(w1, col)

(***************************************************************************)
(* ObjectCellEditor                                                        *)
(***************************************************************************)
\* A faulty editor class: the scratch record is a member of the class, so a
\* new instance finds one already there.
NewEditorWithScratch(cls, col) ==
  [cls |-> cls, column |-> col, opts |-> NoOptions,
   hasObjectModel |-> TRUE, objectModel |-> EmptyObject, origObject |-> EmptyObject,
   hasCollection |-> FALSE, objectCollection |-> <<>>,
   dialog |-> 0, listening |-> TRUE, removed |-> FALSE,
   postRendered |-> FALSE, optsAtPostRender |-> NoOptions]

NewEditor(cls, col) ==
  [cls |-> cls, column |-> col, opts |-> NoOptions,
   hasObjectModel |-> FALSE, objectModel |-> EmptyObject, origObject |-> EmptyObject,
   hasCollection |-> FALSE, objectCollection |-> <<>>,
   dialog |-> 0, listening |-> TRUE, removed |-> FALSE,
   postRendered |-> FALSE, optsAtPostRender |-> NoOptions]

\* extendWithOptions: _.extend(this, options).
extendWithOptions(w, e, options) ==
  Emit([w EXCEPT !.editors[e].opts =
          [n \in OptNames |-> IF n \in DOMAIN options THEN options[n] ELSE @[n]]],
       Ev("extendWithOptions", w.editors[e].column, e, 0))

NewDialog(e, col) ==
  [owner |-> e, title |-> col, shown |-> TRUE, destroyed |-> 0,
   closeWired |-> TRUE, saveWired |-> TRUE,
   hasForm |-> FALSE, rows |-> <<>>, hasGrid |-> FALSE, grid |-> Absent,
   backdrop |-> TRUE, backdropHandlers |-> <<>>,
   touched |-> FALSE]     \* the user has typed into an input of the form

\* A faulty rewiring: no handler is bound to the backdrop.
rewireBackdropsUnbound(ds, e) == ds

\* $('.modal-backdrop').off().click(_.bind(editor.cancel, this)): every
\* backdrop in the document loses its handlers and gets this editor's cancel.
rewireBackdrops(ds, e) ==
  [d \in DOMAIN ds |->
     IF ds[d].backdrop THEN [ds[d] EXCEPT !.backdropHandlers = <<e>>] ELSE ds[d]]

\* createDialog: build the modal, wire close and save, show it, rewire the
\* backdrop.
createDialog(w, e) ==
  LET d == Len(w.dialogs) + 1
      ds == Append(w.dialogs, NewDialog(e, w.editors[e].column))
  IN Emit([w EXCEPT !.dialogs = rewireBackdrops(ds, e), !.editors[e].dialog = d],
          Ev("createDialog", w.editors[e].column, e, d))

validField(field) == field.kind = "object" /\ field.name # "" /\ field.label # ""

\* stringTemplate(_.extend({placeholder: ""}, field, {value: ...})): one form
\* row; the input's text is what the HTML parser reads from the markup the
\* template prints for the value.
stringTemplate(field, value) ==
  [name |-> field.name, label |-> field.label,
   value |-> htmlAttributeValue(templatePrint(value)),
   placeholder |-> templatePrint(field.placeholder)]

\* The _.each over the schema in postRender, from entry i on.
RECURSIVE appendFields(_, _, _, _)
appendFields(w, e, d, i) ==
  LET schema == w.editors[e].opts["schema"].entries
  IN IF w.thrown # NoError \/ i > Len(schema) THEN w
     ELSE IF ~validField(schema[i]) THEN Throw(w, "TypeError")
     ELSE appendFields(
            [w EXCEPT !.dialogs[d].rows =
               Append(@, stringTemplate(schema[i],
                                        get(w.editors[e].objectModel, schema[i].name)))],
            e, d, i + 1)

\* A faulty postRender: the schema is checked after the dialog is built.
objectPostRenderLateCheck(w, e) ==
  LET col == w.editors[e].column
      w0 == Emit([w EXCEPT !.editors[e].postRendered = TRUE,
                           !.editors[e].optsAtPostRender =
                              IF w.editors[e].postRendered THEN @ ELSE w.editors[e].opts],
                 Ev("postRender", col, e, 0))
      w1 == IF w0.editors[e].hasObjectModel THEN w0
            ELSE [w0 EXCEPT !.editors[e].origObject = clone(w0.attrs[col]),
                            !.editors[e].objectModel = clone(clone(w0.attrs[col])),
                            !.editors[e].hasObjectModel = TRUE]
      w2 == createDialog(w1, e)
      d == w2.editors[e].dialog
      w3 == [w2 EXCEPT !.dialogs[d].hasForm = TRUE]
  IN IF ~isArray(w0.editors[e].opts["schema"]) THEN Throw(w3, "TypeError")
     ELSE appendFields(w3, e, d, 1)

\* ObjectCellEditor.postRender.
objectPostRender(w, e) ==
  LET col == w.editors[e].column
      w0 == Emit([w EXCEPT !.editors[e].postRendered = TRUE,
                           !.editors[e].optsAtPostRender =
                              IF w.editors[e].postRendered THEN @ ELSE w.editors[e].opts],
                 Ev("postRender", col, e, 0))
  IN IF ~isArray(w0.editors[e].opts["schema"]) THEN Throw(w0, "TypeError")
     ELSE
       LET w1 == IF w0.editors[e].hasObjectModel THEN w0
                 ELSE [w0 EXCEPT !.editors[e].origObject = clone(w0.attrs[col]),
                                 !.editors[e].objectModel = clone(clone(w0.attrs[col])),
                                 !.editors[e].hasObjectModel = TRUE]
           w2 == createDialog(w1, e)
           d == w2.editors[e].dialog
           w3 == [w2 EXCEPT !.dialogs[d].hasForm = TRUE]
       IN appendFields(w3, e, d, 1)

\* Backgrid.CellEditor#remove (Backbone.View#remove): the element leaves the
\* document and the editor stops listening to the record.  Nothing refers to
\* the editor afterwards, so its scratch state is dropped from the model.
baseEditorRemove(w, e) ==
  [w EXCEPT !.editors[e].removed = TRUE, !.editors[e].listening = FALSE,
            !.editors[e].hasObjectModel = FALSE,
            !.editors[e].objectModel = EmptyObject,
            !.editors[e].origObject = EmptyObject,
            !.editors[e].hasCollection = FALSE,
            !.editors[e].objectCollection = <<>>]

\* A faulty remove: the dialog is left in the document.
removeWithoutDialog(w, e) == baseEditorRemove(w, e)

\* remove: this.$dialog.modal("hide").remove(), then the base class's remove.
\* Hiding a modal removes its backdrop; removing the element takes it and its
\* content out of the document and unbinds its handlers.
remove(w, e) ==
  LET d == w.editors[e].dialog
  IN IF d = 0 THEN Throw(w, "TypeError")
     ELSE baseEditorRemove(
            Emit([w EXCEPT !.dialogs[d].shown = FALSE,
                           !.dialogs[d].destroyed = @ + 1,
                           !.dialogs[d].closeWired = FALSE,
                           !.dialogs[d].saveWired = FALSE,
                           !.dialogs[d].backdrop = FALSE,
                           !.dialogs[d].backdropHandlers = <<>>,
                           !.dialogs[d].hasForm = FALSE,
                           !.dialogs[d].rows = <<>>,
                           !.dialogs[d].hasGrid = FALSE,
                           !.dialogs[d].grid = Absent],
                 Ev("destroy", w.editors[e].column, e, d)),
            e)

\* Backgrid.Cell#exitEditMode: remove the editor, forget it, show the value.
exitEditMode(w, c) ==
  LET e == w.cells[c].currentEditor
  IN IF e = 0 THEN Throw(w, "TypeError")
     ELSE Then(remove(w, e),
               LAMBDA w1: render([w1 EXCEPT !.cells[c].currentEditor = 0,
                                            !.cells[c].hasEditorClass = FALSE], c))

\* The grid body's listener on "backgrid:edited" (Backgrid.Body#moveToNextCell):
\* the cell of that column leaves edit mode.
moveToNextCell(w, col) == exitEditMode(w, col)

\* model.trigger("backgrid:edited", model, column, new Backgrid.Command(...)).
triggerEdited(w, e, keyCode) ==
  LET col == w.editors[e].column
  IN moveToNextCell(Emit(w, Ev("backgrid:edited", col, e, keyCode)), col)

\* $form.find('input[name=' + name + ']').val(): the text of the first input
\* of that name, undefined when the form has none.
formVal(rows, name) ==
  IF \E i \in 1..Len(rows) : rows[i].name = name
  THEN Str(rows[CHOOSE i \in 1..Len(rows) :
                  /\ rows[i].name = name
                  /\ \A j \in 1..(i - 1) : rows[j].name # name].value)
  ELSE Undef

\* The _.each over the schema in save, from entry i on: the changes object,
\* or the exception that reading an entry raises.
RECURSIVE readForm(_, _, _, _)
readForm(schema, rows, i, changes) ==
  IF i > Len(schema) THEN [thrown |-> NoError, changes |-> changes]
  ELSE IF schema[i].kind = "null" THEN [thrown |-> "TypeError", changes |-> changes]
  ELSE IF schema[i].kind # "object" THEN readForm(schema, rows, i + 1, changes)
  ELSE IF schema[i].name = "" THEN [thrown |-> "SyntaxError", changes |-> changes]
  ELSE readForm(schema, rows, i + 1,
                [k \in DOMAIN changes \cup {schema[i].name} |->
                   IF k = schema[i].name THEN formVal(rows, k) ELSE changes[k]])

\* Backbone.Model#set(changes) on the scratch record.
objectModelSet(object, changes) ==
  [k \in DOMAIN object \cup DOMAIN changes |->
     IF k \in DOMAIN changes THEN changes[k] ELSE object[k]]

\* A faulty save: the record is written before the inputs are read, and
\* again after.
objectSaveInTwoWrites(w, e) ==
  LET col == w.editors[e].column
      d == w.editors[e].dialog
  IN IF d = 0 THEN Throw(w, "TypeError")
     ELSE
       LET r == readForm(w.editors[e].opts["schema"].entries, w.dialogs[d].rows, 1, <<>>)
           om == objectModelSet(w.editors[e].objectModel, r.changes)
           w1 == modelSet(w, col, toJSON(w.editors[e].objectModel), e)
       IN IF r.thrown # NoError THEN Throw(w1, r.thrown)
          ELSE Then(modelSet([w1 EXCEPT !.editors[e].objectModel = om],
                             col, toJSON(om), e),
                    LAMBDA w2: triggerEdited(w2, e, KeyEnter))

\* ObjectCellEditor.save.
objectSave(w, e) ==
  LET col == w.editors[e].column
      d == w.editors[e].dialog
  IN IF d = 0 THEN Throw(w, "TypeError")
     ELSE
       LET r == readForm(w.editors[e].opts["schema"].entries, w.dialogs[d].rows, 1, <<>>)
       IN IF r.thrown # NoError THEN Throw(w, r.thrown)
          ELSE
            LET om == objectModelSet(w.editors[e].objectModel, r.changes)
                w1 == [w EXCEPT !.editors[e].objectModel = om]
            IN Then(modelSet(w1, col, toJSON(om), e),
                    LAMBDA w2: triggerEdited(w2, e, KeyEnter))

\* A faulty cancel: the scratch copy is written like save does.
cancelWithWrite(w, e) ==
  triggerEdited(
    modelSet(w, w.editors[e].column,
             IF w.editors[e].cls = "ObjectCellEditor"
             THEN toJSON(w.editors[e].objectModel)
             ELSE w.editors[e].objectCollection, e),
    e, KeyEscape)

\* cancel (both editors).
cancel(w, e) == triggerEdited(w, e, KeyEscape)

(***************************************************************************)
(* ArrayObjectCellEditor                                                   *)
(***************************************************************************)
hasId(rows, id) == id # Undef /\ \E i \in 1..Len(rows) : rows[i]["id"] = id

\* Backbone.Collection#add of one plain object: a row whose id the collection
\* already holds is not added again.
collectionAdd(rows, object) ==
  IF hasId(rows, object["id"]) THEN rows ELSE Append(rows, object)

\* new Backbone.Collection(array).
RECURSIVE newCollection(_, _, _)
newCollection(array, i, rows) ==
  IF i > Len(array) THEN rows
  ELSE newCollection(array, i + 1, collectionAdd(rows, array[i]))

\* Backbone.Collection#toJSON: each row's attributes, in order.
collectionToJSON(rows) == [i \in 1..Len(rows) |-> toJSON(rows[i])]

\* ArrayObjectCellEditor.postRender.
arrayPostRender(w, e) ==
  LET col == w.editors[e].column
      w0 == Emit([w EXCEPT !.editors[e].postRendered = TRUE,
                           !.editors[e].optsAtPostRender =
                              IF w.editors[e].postRendered THEN @ ELSE w.editors[e].opts],
                 Ev("postRender", col, e, 0))
      array == [i \in 1..Len(w.attrs[col]) |-> clone(w.attrs[col][i])]
      w1 == [w0 EXCEPT !.editors[e].objectCollection = newCollection(array, 1, <<>>),
                       !.editors[e].hasCollection = TRUE]
      w2 == createDialog(w1, e)
      d == w2.editors[e].dialog
  IN IF ~truthy(w2.editors[e].opts["backgrid"]) THEN Throw(w2, "TypeError")
     ELSE [w2 EXCEPT !.dialogs[d].hasGrid = TRUE,
                     !.dialogs[d].grid = w2.editors[e].opts["backgrid"]]

\* A faulty save: the rows are written in reverse order.
arraySaveReversed(w, e) ==
  LET col == w.editors[e].column
      rows == w.editors[e].objectCollection
  IN Then(modelSet(w, col, [i \in 1..Len(rows) |-> toJSON(rows[Len(rows) + 1 - i])], e),
          LAMBDA w2: triggerEdited(w2, e, KeyEnter))

\* ArrayObjectCellEditor.save.
arraySave(w, e) ==
  LET col == w.editors[e].column
  IN IF ~w.editors[e].hasCollection THEN Throw(w, "TypeError")
     ELSE Then(modelSet(w, col, collectionToJSON(w.editors[e].objectCollection), e),
               LAMBDA w2: triggerEdited(w2, e, KeyEnter))

postRender(w, e) ==
  IF w.editors[e].cls = "ObjectCellEditor" THEN objectPostRender(w, e)
  ELSE arrayPostRender(w, e)

save(w, e) ==
  IF w.editors[e].cls = "ObjectCellEditor" THEN objectSave(w, e)
  ELSE arraySave(w, e)

(***************************************************************************)
(* ObjectCell and ArrayObjectCell                                          *)
(***************************************************************************)
NewCell(c, proto, options) ==
  [cls |-> CellClass(c), proto |-> proto, options |-> options,
   editorOptions |-> initialize(CellClass(c), proto, options),
   content |-> Display(c, <<>>), savedContent |-> Display(c, <<>>),
   hasEditorClass |-> FALSE, delegated |-> TRUE,
   currentEditor |-> 0, removed |-> FALSE]

EditorClass(cls) ==
  IF cls = "ObjectCell" THEN "ObjectCellEditor" ELSE "ArrayObjectCellEditor"

\* A faulty "backgrid:edit" listener: the editor is never configured.
onEditDoNothing(w, c, col, e) == w

\* A faulty "backgrid:edit" listener: the column is not compared.
onEditAnyColumn(w, c, col, e) == extendWithOptions(w, e, w.cells[c].editorOptions)

\* The cell's listener on "backgrid:edit" (set up in initialize).
onEdit(w, c, col, e) ==
  IF col = c THEN extendWithOptions(w, e, w.cells[c].editorOptions) ELSE w

\* model.trigger("backgrid:edit", model, column, cell, editor): the listeners
\* of the row's cells, in the order the cells were built, from cell i on.
RECURSIVE triggerEdit(_, _, _, _)
triggerEdit(w, col, e, i) ==
  IF w.thrown # NoError \/ i > Len(CellOrder) THEN w
  ELSE triggerEdit(IF w.cells[CellOrder[i]].removed THEN w
                   ELSE onEdit(w, CellOrder[i], col, e),
                   col, e, i + 1)

\* model.trigger("backgrid:editing", ...): postRender of every editor that
\* listens to the record (Backgrid.CellEditor#initialize), oldest first.
RECURSIVE triggerEditing(_, _)
triggerEditing(w, i) ==
  IF w.thrown # NoError \/ i > Len(w.editors) THEN w
  ELSE triggerEditing(IF w.editors[i].listening THEN postRender(w, i) ELSE w, i + 1)

\* Backgrid.Cell#enterEditMode: on an editable column, a new editor, the
\* "backgrid:edit" notification, the editor swapped into the cell, the
\* "backgrid:editing" notification.
baseEnterEditMode(w, c, isEditable) ==
  IF ~isEditable THEN w
  ELSE
    LET e == Len(w.editors) + 1
        w1 == [w EXCEPT !.editors = Append(@, NewEditor(EditorClass(w.cells[c].cls), c)),
                        !.cells[c].currentEditor = e]
        w2 == triggerEdit(Emit(w1, Ev("backgrid:edit", c, e, 0)), c, e, 1)
    IN Then(w2, LAMBDA w3:
         triggerEditing(
           Emit([w3 EXCEPT !.cells[c].delegated = FALSE,
                           !.cells[c].content = EditorSurface(c),
                           !.cells[c].hasEditorClass = TRUE],
                Ev("backgrid:editing", c, e, 0)),
           1))

\* ObjectCell.enterEditMode.
enterEditMode(w, c, isEditable) ==
  LET w0 == [w EXCEPT !.cells[c].savedContent = w.cells[c].content]
  IN Then(baseEnterEditMode(w0, c, isEditable),
          LAMBDA w1: IF isEditable
                     THEN [w1 EXCEPT !.cells[c].content = w1.cells[c].savedContent]
                     ELSE w1)

\* Backgrid.Cell#remove: remove the editor of an open session, then the cell.
cellRemove(w, c) ==
  LET e == w.cells[c].currentEditor
      w1 == IF e = 0 THEN w ELSE remove(w, e)
  IN Then(w1, LAMBDA w2: [w2 EXCEPT !.cells[c].currentEditor = 0,
                                    !.cells[c].removed = TRUE,
                                    !.cells[c].delegated = FALSE])

(***************************************************************************)
(* The state machine.                                                      *)
(***************************************************************************)
Commit(w) ==
  /\ attrs' = w.attrs
  /\ cells' = w.cells
  /\ editors' = w.editors
  /\ dialogs' = w.dialogs
  /\ log' = w.log
  /\ thrown' = w.thrown
  /\ UNCHANGED editable

Init ==
  /\ attrs \in Records
  /\ editable \in EditableChoices
  /\ \E cfg \in CellConfigs :
       cells = [c \in Columns |->
                  LET cell == IF c = "address"
                              THEN NewCell(c, With(NoOptions, "schema", cfg[1][1]),
                                           With(NoOptions, "schema", cfg[1][2]))
                              ELSE NewCell(c, NoOptions,
                                           With(With(NoOptions, "backgrid", cfg[2][1]),
                                                "gridOptions", cfg[2][2]))
                  IN [cell EXCEPT !.content = Display(c, attrs[c]),
                                  !.savedContent = Display(c, attrs[c])]]
  /\ editors = <<>>
  /\ dialogs = <<>>
  /\ log = <<>>
  /\ thrown = NoError

ModalOpen == \E d \in 1..Len(dialogs) : dialogs[d].backdrop

\* A click on a cell whose click handler is delegated.  A shown modal's
\* backdrop covers the grid, so no cell is clicked while one is open.
ClickCell(c) ==
  /\ ~cells[c].removed
  /\ cells[c].delegated
  /\ ~ModalOpen
  /\ Len(editors) < MaxSessions
  /\ Commit(enterEditMode(World, c, editable[c]))

\* The user types into the i-th input of the form.
TypeInput(d, i, text) ==
  /\ dialogs[d].shown
  /\ dialogs[d].hasForm
  /\ i \in 1..Len(dialogs[d].rows)
  /\ Commit([World EXCEPT !.dialogs[d].rows[i].value = text,
                          !.dialogs[d].touched = TRUE])

\* The nested grid edits the name of a scratch row.
GridEditRow(d, i, name) ==
  /\ dialogs[d].shown
  /\ dialogs[d].hasGrid
  /\ i \in 1..Len(editors[dialogs[d].owner].objectCollection)
  /\ Commit([World EXCEPT
               !.editors[dialogs[d].owner].objectCollection[i]["name"] = Str(name)])

\* The nested grid adds a row to the scratch row-collection.
GridAddRow(d, row) ==
  /\ dialogs[d].shown
  /\ dialogs[d].hasGrid
  /\ Len(editors[dialogs[d].owner].objectCollection) < MaxRows
  /\ Commit([World EXCEPT
               !.editors[dialogs[d].owner].objectCollection = collectionAdd(@, row)])

\* The nested grid removes a row from the scratch row-collection.
GridRemoveRow(d, i) ==
  /\ dialogs[d].shown
  /\ dialogs[d].hasGrid
  /\ i \in 1..Len(editors[dialogs[d].owner].objectCollection)
  /\ Commit([World EXCEPT
               !.editors[dialogs[d].owner].objectCollection =
                  [j \in 1..(Len(@) - 1) |-> IF j < i THEN @[j] ELSE @[j + 1]]])

\* A click on the dialog's Save button.
ClickSave(d) ==
  /\ dialogs[d].shown
  /\ dialogs[d].saveWired
  /\ Commit(save(Emit(World, Ev("save", dialogs[d].title, dialogs[d].owner, 0)),
                 dialogs[d].owner))

\* A click on one of the dialog's close controls.
ClickClose(d) ==
  /\ dialogs[d].shown
  /\ dialogs[d].closeWired
  /\ Commit(cancel(Emit(World, Ev("cancel", dialogs[d].title, dialogs[d].owner, 0)),
                   dialogs[d].owner))

\* The handlers bound to a backdrop, run in the order they were bound.
RECURSIVE runHandlers(_, _, _)
runHandlers(w, handlers, i) ==
  IF w.thrown # NoError \/ i > Len(handlers) THEN w
  ELSE runHandlers(cancel(Emit(w, Ev("cancel", w.editors[handlers[i]].column,
                                     handlers[i], 0)),
                          handlers[i]),
                   handlers, i + 1)

\* A click on the backdrop of a shown dialog.
ClickBackdrop(d) ==
  /\ dialogs[d].backdrop
  /\ Commit(runHandlers(Emit(World, Ev("backdrop-click", dialogs[d].title,
                                       dialogs[d].owner, d)),
                         dialogs[d].backdropHandlers, 1))

\* The application sets the attribute of the record while the cell is in
\* an edit session.
HostSet(c) ==
  /\ cells[c].currentEditor # 0
  /\ HostValues[c] # attrs[c]
  /\ Commit(modelSet(World, c, HostValues[c], 0))

\* The host tears the cell down (the row or the grid is removed) while the
\* cell is in an edit session.
HostRemoveCell(c) ==
  /\ ~cells[c].removed
  /\ cells[c].currentEditor # 0
  /\ Commit(cellRemove(World, c))

Next ==
  \/ \E c \in Columns : ClickCell(c)
  \/ \E d \in 1..Len(dialogs), i \in 1..MaxRows, text \in Texts : TypeInput(d, i, text)
  \/ \E d \in 1..Len(dialogs), i \in 1..MaxRows, name \in Names : GridEditRow(d, i, name)
  \/ \E d \in 1..Len(dialogs), row \in AddRows : GridAddRow(d, row)
  \/ \E d \in 1..Len(dialogs), i \in 1..MaxRows : GridRemoveRow(d, i)
  \/ \E d \in 1..Len(dialogs) : ClickSave(d)
  \/ \E d \in 1..Len(dialogs) : ClickClose(d)
  \/ \E d \in 1..Len(dialogs) : ClickBackdrop(d)
  \/ \E c \in Columns : HostSet(c)
  \/ \E c \in Columns : HostRemoveCell(c)

Spec == Init /\ [][Next]_vars

(***************************************************************************)
(* Properties.                                                             *)
(***************************************************************************)
Did(l, op, e) == \E i \in 1..Len(l) : l[i].op = op /\ l[i].ed = e
Signalled(l, e, keyCode) ==
  \E i \in 1..Len(l) : l[i].op = "backgrid:edited" /\ l[i].ed = e /\ l[i].n = keyCode
Count(l, op, e) == Cardinality({i \in 1..Len(l) : l[i].op = op /\ l[i].ed = e})
IsObjectEditor(eds, e) == eds[e].cls = "ObjectCellEditor"
IsArrayEditor(eds, e) == eds[e].cls = "ArrayObjectCellEditor"

\* C1: a step in which an editor's cancel() runs (close control or backdrop)
\* leaves every attribute of the record as it was, for both editors, and a
\* step that changes the record is a save() of an editor or a set by the
\* application, never postRender, extendWithOptions, an input or grid edit,
\* cancel or remove.
C1_CancelWritesNothing ==
  [][ /\ \A e \in 1..Len(editors) : Did(log', "cancel", e) => attrs' = attrs
      /\ attrs' # attrs =>
           \/ \E e \in 1..Len(editors) :
                Did(log', "save", e) /\ Did(log', "set", e) /\ ~Did(log', "cancel", e)
           \/ Len(log') = 1 /\ log'[1].op = "set" /\ log'[1].ed = 0 ]_vars

\* A session ended by cancel(): the abort signal was emitted and handled.
C1_Witness ==
  \E e \in 1..Len(editors) :
    /\ Did(log, "cancel", e)
    /\ Signalled(log, e, KeyEscape)
    /\ editors[e].removed

\* C3: a step in which ArrayObjectCellEditor.save() runs leaves the record's
\* attribute equal to the rows the scratch row-collection held before the
\* step, in the same order, and emits the commit signal.
C3_ArraySaveWritesRows ==
  [][ \A e \in 1..Len(editors) :
        (IsArrayEditor(editors, e) /\ Did(log', "save", e)) =>
          /\ Len(attrs'[editors[e].column]) = Len(editors[e].objectCollection)
          /\ \A i \in 1..Len(editors[e].objectCollection) :
               attrs'[editors[e].column][i] = editors[e].objectCollection[i]
          /\ Signalled(log', e, KeyEnter) ]_vars

\* Row 1 of two rows was removed in the nested grid, row 2 renamed, a row
\* added, and the rows saved.
C3_Witness ==
  \E e \in 1..Len(editors) :
    /\ IsArrayEditor(editors, e)
    /\ Did(log, "save", e)
    /\ attrs["tags"] = <<Row(Num("2"), Str("c")), RowNew>>

ValidSchema(schema) ==
  /\ schema.kind = "array"
  /\ \A i \in 1..Len(schema.entries) :
       /\ schema.entries[i].kind = "object"
       /\ schema.entries[i].name # ""
       /\ schema.entries[i].label # ""
DialogsOf(ds, e) == {d \in 1..Len(ds) : ds[d].owner = e}

\* C5: a step in which ObjectCellEditor.postRender runs with a schema that is
\* not a sequence ends with a TypeError, and at that moment the editor has
\* no dialog, no dialog was created or shown by the step, no backdrop
\* handler was wired, the editor has no scratch record and the record is
\* unchanged.
C5_NonSequenceSchemaThrowsFirst ==
  [][ \A e \in 1..Len(editors') :
        ( /\ IsObjectEditor(editors', e)
          /\ Did(log', "postRender", e)
          /\ editors'[e].opts["schema"].kind # "array" ) =>
          /\ thrown' = "TypeError"
          /\ dialogs' = dialogs
          /\ editors'[e].dialog = 0
          /\ DialogsOf(dialogs', e) = {}
          /\ ~editors'[e].hasObjectModel
          /\ attrs' = attrs ]_vars

\* postRender has just failed on a bare-object schema.
C5_Witness ==
  \E e \in 1..Len(editors) :
    /\ IsObjectEditor(editors, e)
    /\ Did(log, "postRender", e)
    /\ editors[e].opts["schema"] = BareObject
    /\ thrown = "TypeError"

\* C7: a dialog is destroyed (hidden and removed) at most once; it is shown
\* exactly while it has not been destroyed, and then belongs to the editor
\* of its cell's open session; the dialog of an editor that was removed has
\* been destroyed; and when a handler has emitted and handled the completion
\* signal of save or cancel, that editor is removed, its cell has no session
\* and none of its dialogs is shown.
C7_OneDestroyPerSession ==
  /\ \A d \in 1..Len(dialogs) :
       /\ dialogs[d].destroyed <= 1
       /\ dialogs[d].shown <=> dialogs[d].destroyed = 0
       /\ dialogs[d].shown =>
            /\ ~editors[dialogs[d].owner].removed
            /\ editors[dialogs[d].owner].dialog = d
            /\ cells[dialogs[d].title].currentEditor = dialogs[d].owner
       /\ editors[dialogs[d].owner].removed => dialogs[d].destroyed = 1
  /\ \A e \in 1..Len(editors) :
       /\ Cardinality(DialogsOf(dialogs, e)) <= 1
       /\ ( /\ thrown = NoError
            /\ \E i \in 1..Len(log) : log[i].op = "backgrid:edited" /\ log[i].ed = e ) =>
            /\ editors[e].removed
            /\ cells[editors[e].column].currentEditor = 0
            /\ \A d \in DialogsOf(dialogs, e) : ~dialogs[d].shown /\ dialogs[d].destroyed = 1

\* Two sessions that each opened a dialog have ended, one of them by the
\* host's teardown of the cell, and both dialogs were destroyed once.
C7_Witness ==
  /\ Len(dialogs) = 2
  /\ \A d \in 1..2 : dialogs[d].destroyed = 1 /\ ~dialogs[d].shown
  /\ \E c \in Columns : cells[c].removed
  /\ \E e \in 1..Len(editors) : Signalled(log, e, KeyEnter)

\* C9: a step in which ObjectCellEditor.postRender runs with a valid schema
\* leaves the editor's dialog with one input row per schema entry, in schema
\* order, the i-th named and labelled by the i-th entry, holding the text of
\* the scratch record's value for that name (empty for an absent value), its
\* placeholder the entry's, or the empty string when the entry gives none;
\* the scratch record is then a copy of the record's attribute.
C9_OneRowPerSchemaEntry ==
  [][ \A e \in 1..Len(editors') :
        ( /\ IsObjectEditor(editors', e)
          /\ Did(log', "postRender", e)
          /\ ValidSchema(editors'[e].opts["schema"]) ) =>
          LET schema == editors'[e].opts["schema"].entries
              d == editors'[e].dialog
              scratch == editors'[e].objectModel
          IN /\ thrown' = NoError
             /\ d # 0
             /\ dialogs'[d].shown
             /\ scratch = attrs[editors'[e].column]
             /\ Len(dialogs'[d].rows) = Len(schema)
             /\ \A i \in 1..Len(schema) :
                  /\ dialogs'[d].rows[i].name = schema[i].name
                  /\ dialogs'[d].rows[i].label = schema[i].label
                  /\ dialogs'[d].rows[i].value =
                       (IF scratch[schema[i].name] = Undef THEN ""
                        ELSE scratch[schema[i].name][2])
                  /\ dialogs'[d].rows[i].placeholder =
                       (IF schema[i].placeholder = Undef THEN ""
                        ELSE schema[i].placeholder[2]) ]_vars

\* A value whose text an input holds unchanged: an absent value, a nested
\* object (it reads "[object Object]"), a string or number without a double
\* quote.
PlainText(v) == isRef(v) \/ htmlAttributeValue(templatePrint(v)) = templatePrint(v)

\* The same for the sessions on attributes whose schema-named fields are plain
\* text, where it holds.
C9_OneRowPerSchemaEntryOfPlainText ==
  [][ \A e \in 1..Len(editors') :
        ( /\ IsObjectEditor(editors', e)
          /\ Did(log', "postRender", e)
          /\ ValidSchema(editors'[e].opts["schema"])
          /\ \A k \in Keys : PlainText(attrs[editors'[e].column][k]) ) =>
          LET schema == editors'[e].opts["schema"].entries
              d == editors'[e].dialog
              scratch == editors'[e].objectModel
          IN /\ thrown' = NoError
             /\ d # 0
             /\ dialogs'[d].shown
             /\ scratch = attrs[editors'[e].column]
             /\ Len(dialogs'[d].rows) = Len(schema)
             /\ \A i \in 1..Len(schema) :
                  /\ dialogs'[d].rows[i].name = schema[i].name
                  /\ dialogs'[d].rows[i].label = schema[i].label
                  /\ dialogs'[d].rows[i].value =
                       (IF scratch[schema[i].name] = Undef THEN ""
                        ELSE scratch[schema[i].name][2])
                  /\ dialogs'[d].rows[i].placeholder =
                       (IF schema[i].placeholder = Undef THEN ""
                        ELSE schema[i].placeholder[2]) ]_vars

\* Edit mode was entered on {street: "A", city: "X"} with the schema street,
\* city: the two inputs show "A" and "X".
C9_Witness ==
  \E e \in 1..Len(editors) :
    /\ Did(log, "postRender", e)
    /\ editors[e].dialog # 0
    /\ dialogs[editors[e].dialog].shown
    /\ Len(dialogs[editors[e].dialog].rows) = 2
    /\ dialogs[editors[e].dialog].rows[1].value = "A"
    /\ dialogs[editors[e].dialog].rows[2].value = "X"
    /\ dialogs[editors[e].dialog].rows[1].placeholder = ""
    /\ dialogs[editors[e].dialog].rows[2].placeholder = "Town"

NamedBySchema(entries, k) ==
  \E i \in 1..Len(entries) : entries[i].kind = "object" /\ entries[i].name = k

\* What C2 says of a step in which editor e's save() runs.
SaveWritesInputs(e) ==
  LET col == editors[e].column
      entries == editors[e].opts["schema"].entries
      rows == dialogs[editors[e].dialog].rows
  IN \A k \in Keys :
       IF NamedBySchema(entries, k)
       THEN \E i \in 1..Len(rows) :
              /\ rows[i].name = k
              /\ \A j \in 1..(i - 1) : rows[j].name # k
              /\ attrs'[col][k] = Str(rows[i].value)
       ELSE attrs'[col][k] = editors[e].origObject[k]

\* C2: a step in which ObjectCellEditor.save() runs leaves the record's
\* attribute equal to the copy taken at session start with every field the
\* schema names set to the text of the input of that name (the first one,
\* when two entries share a name), and every other field as it was at
\* session start.
C2_SaveWritesInputs ==
  [][ \A e \in 1..Len(editors) :
        (IsObjectEditor(editors, e) /\ Did(log', "save", e)) => SaveWritesInputs(e) ]_vars

\* The same for the sessions whose schema is valid, where it holds.
C2_SaveWritesInputsOfValidSchema ==
  [][ \A e \in 1..Len(editors) :
        ( /\ IsObjectEditor(editors, e)
          /\ Did(log', "save", e)
          /\ ValidSchema(editors[e].opts["schema"]) ) => SaveWritesInputs(e) ]_vars

\* What C4 says of a step in which editor e's save() runs: one completion
\* signal, for the editor's column, with key code 13, after the write.
SaveSignalsOnce(l, e) ==
  /\ Count(l, "backgrid:edited", e) = 1
  /\ \E i \in 1..Len(l) :
       /\ l[i] = Ev("backgrid:edited", editors[e].column, e, KeyEnter)
       /\ \E j \in 1..(i - 1) : l[j] = Ev("set", editors[e].column, e, 0)

\* What C4 says of a step in which editor e's cancel() runs, and of every
\* completion signal.
CancelSignalsOnce(l, e) ==
  /\ Did(l, "cancel", e) =>
       /\ Count(l, "backgrid:edited", e) = 1
       /\ Signalled(l, e, KeyEscape)
       /\ ~Did(l, "set", e)
  /\ Did(l, "backgrid:edited", e) => Did(l, "save", e) \/ Did(l, "cancel", e)

\* C4: every save() emits exactly one completion signal, with the column and
\* key code 13, after the write to the record; every cancel() emits exactly
\* one, with key code 27, and writes nothing; nothing else emits one.
C4_OneSignalPerSaveOrCancel ==
  [][ \A e \in 1..Len(editors') :
        /\ (e <= Len(editors) /\ Did(log', "save", e)) => SaveSignalsOnce(log', e)
        /\ e <= Len(editors) => CancelSignalsOnce(log', e)
        /\ e > Len(editors) => ~Did(log', "backgrid:edited", e) ]_vars

\* The same for the invocations of save() that return, where it holds.
C4_OneSignalPerCompletedSaveOrCancel ==
  [][ \A e \in 1..Len(editors') :
        /\ (e <= Len(editors) /\ Did(log', "save", e) /\ thrown' = NoError) =>
             SaveSignalsOnce(log', e)
        /\ e <= Len(editors) => CancelSignalsOnce(log', e)
        /\ e > Len(editors) => ~Did(log', "backgrid:edited", e) ]_vars

\* C6: a step in which ObjectCellEditor.postRender runs with a schema that is
\* a sequence with an invalid entry ends with a TypeError, and at that
\* moment no dialog has been created, shown or wired.
C6_InvalidEntryThrowsFirst ==
  [][ \A e \in 1..Len(editors') :
        ( /\ IsObjectEditor(editors', e)
          /\ Did(log', "postRender", e)
          /\ editors'[e].opts["schema"].kind = "array"
          /\ ~ValidSchema(editors'[e].opts["schema"]) ) =>
          /\ thrown' = "TypeError"
          /\ dialogs' = dialogs
          /\ editors'[e].dialog = 0 ]_vars

\* What the code does there: it throws, with the dialog shown and wired.
C6_InvalidEntryThrows ==
  [][ \A e \in 1..Len(editors') :
        ( /\ IsObjectEditor(editors', e)
          /\ Did(log', "postRender", e)
          /\ editors'[e].opts["schema"].kind = "array"
          /\ ~ValidSchema(editors'[e].opts["schema"]) ) =>
          /\ thrown' = "TypeError"
          /\ editors'[e].dialog # 0
          /\ dialogs'[editors'[e].dialog].shown
          /\ dialogs'[editors'[e].dialog].saveWired ]_vars

\* The options the code hands to the editors of cell c.
EffectiveOptions(c) ==
  [n \in DOMAIN editorOptionDefaults(cells[c].cls) |->
     IF truthy(cells[c].options[n]) THEN cells[c].options[n]
     ELSE IF truthy(cells[c].proto[n]) THEN cells[c].proto[n]
     ELSE editorOptionDefaults(cells[c].cls)[n]]

\* The options as C8 words them.
SuppliedOrDefault(c) ==
  [n \in DOMAIN editorOptionDefaults(cells[c].cls) |->
     IF cells[c].options[n] # Absent THEN cells[c].options[n]
     ELSE editorOptionDefaults(cells[c].cls)[n]]

\* In the last handler, extendWithOptions of a new editor ran before its
\* postRender.
ExtendedBeforePostRender ==
  \A i \in 1..Len(log) :
    (log[i].op = "postRender" /\ Did(log, "backgrid:edit", log[i].ed)) =>
      \E j \in 1..(i - 1) : log[j] = Ev("extendWithOptions", log[i].col, log[i].ed, 0)

\* C8 as stated: in every session, the editor had, when its postRender ran,
\* each editorOptionDefaults name set to the option supplied at construction
\* if any, otherwise to the default.
C8_SuppliedOrDefaultBeforePostRender ==
  /\ ExtendedBeforePostRender
  /\ \A e \in 1..Len(editors) :
       editors[e].postRendered =>
         \A n \in DOMAIN SuppliedOrDefault(editors[e].column) :
           editors[e].optsAtPostRender[n] = SuppliedOrDefault(editors[e].column)[n]

\* C8 as amended: in every session, first or later, the editor had, when its
\* postRender ran, each editorOptionDefaults name set to the option supplied
\* at construction if that is truthy, otherwise to the value the cell class
\* carries under the name if that is truthy, otherwise to the default; and
\* extendWithOptions ran before postRender.
C8_EffectiveOptionsBeforePostRender ==
  /\ ExtendedBeforePostRender
  /\ \A e \in 1..Len(editors) :
       editors[e].postRendered =>
         \A n \in DOMAIN EffectiveOptions(editors[e].column) :
           editors[e].optsAtPostRender[n] = EffectiveOptions(editors[e].column)[n]

\* The second session of the address cell has just rendered with the schema
\* its class carries.
C8_Witness ==
  /\ Len(editors) = 2
  /\ editors[1].column = "address"
  /\ editors[2].column = "address"
  /\ editors[1].removed
  /\ Did(log, "postRender", 2)
  /\ cells["address"].options["schema"] = Absent
  /\ editors[2].optsAtPostRender["schema"] = Schema(<<Street, City>>)

\* C10: while a dialog of a cell's session is open, the cell shows the
\* content it showed when enterEditMode was called; the cell of a column
\* that is not editable has no session and shows its value.
C10_ContentKeptWhileDialogOpen ==
  /\ \A d \in 1..Len(dialogs) :
       dialogs[d].shown =>
         cells[dialogs[d].title].content = cells[dialogs[d].title].savedContent
  /\ \A c \in Columns :
       ~editable[c] => cells[c].currentEditor = 0 /\ cells[c].content.kind = "display"

\* The same for the dialogs that a postRender which returned has opened,
\* where it holds.
C10_ContentKeptWhileCompleteDialogOpen ==
  /\ \A d \in 1..Len(dialogs) :
       ( /\ dialogs[d].shown
         /\ IsObjectEditor(editors, dialogs[d].owner) =>
              ValidSchema(editors[dialogs[d].owner].opts["schema"]) ) =>
         cells[dialogs[d].title].content = cells[dialogs[d].title].savedContent
  /\ \A c \in Columns :
       ~editable[c] => cells[c].currentEditor = 0 /\ cells[c].content.kind = "display"

\* The nested objects reachable from a plain object, and from a list of them.
Refs(object) == { object[k][3] : k \in { j \in DOMAIN object : isRef(object[j]) } }
RefsOfRows(rows) == UNION { Refs(rows[i]) : i \in 1..Len(rows) }

\* The nested objects reachable from the scratch copy of editor e.
ScratchRefs(e) ==
  IF IsObjectEditor(editors, e)
  THEN (IF editors[e].hasObjectModel
        THEN Refs(editors[e].objectModel) \cup Refs(editors[e].origObject)
        ELSE {})
  ELSE (IF editors[e].hasCollection THEN RefsOfRows(editors[e].objectCollection)
        ELSE {})

\* The nested objects reachable from the record's attribute of column c.
AttributeRefs(c) == IF c = "address" THEN Refs(attrs[c]) ELSE RefsOfRows(attrs[c])

\* C11: during a session of either editor, no nested object is reachable
\* both from the editor's scratch copy and from the record's attribute.
C11_ScratchSharesNothing ==
  \A e \in 1..Len(editors) :
    ~editors[e].removed =>
      ScratchRefs(e) \cap AttributeRefs(editors[e].column) = {}

\* What the code gives: the scratch copy is another object than the
\* attribute (another list of other row objects), whose fields hold the very
\* values the attribute's fields hold, nested objects included.
C11_ScratchIsShallowCopy ==
  [][ \A e \in 1..Len(editors') :
        (Did(log', "postRender", e) /\ thrown' = NoError /\ e > Len(editors)) =>
          LET col == editors'[e].column
          IN IF IsObjectEditor(editors', e)
             THEN /\ editors'[e].objectModel = attrs[col]
                  /\ Refs(editors'[e].objectModel) = Refs(attrs[col])
             ELSE /\ editors'[e].objectCollection = newCollection(attrs[col], 1, <<>>)
                  /\ RefsOfRows(editors'[e].objectCollection) = RefsOfRows(attrs[col]) ]_vars

\* The backdrop-click handlers attached in the document.
BackdropHandlers(ds) ==
  { <<d, i>> \in (1..Len(ds)) \X (1..MaxSessions) : i <= Len(ds[d].backdropHandlers) }

\* C12: after every step at most one backdrop-click handler is attached; the
\* backdrop of an open dialog carries exactly the cancel() of the editor of
\* the open session of the dialog's cell; and a step that is a click on a
\* backdrop runs cancel() of that editor once and of no other editor, and
\* emits exactly one completion signal, the abort signal of that session.
C12_BackdropCancelsOpenSession ==
  [][ /\ Cardinality(BackdropHandlers(dialogs')) <= 1
      /\ \A d \in 1..Len(dialogs') :
           IF dialogs'[d].backdrop
           THEN /\ dialogs'[d].backdropHandlers = <<dialogs'[d].owner>>
                /\ cells'[dialogs'[d].title].currentEditor = dialogs'[d].owner
           ELSE dialogs'[d].backdropHandlers = <<>>
      /\ \A d \in 1..Len(dialogs) :
           (\E i \in 1..Len(log') : log'[i].op = "backdrop-click" /\ log'[i].n = d) =>
             LET e == cells[dialogs[d].title].currentEditor
             IN /\ e # 0
                /\ editors[e].dialog = d
                /\ thrown' = NoError
                /\ \A x \in 1..Len(editors) :
                     /\ Count(log', "cancel", x) = (IF x = e THEN 1 ELSE 0)
                     /\ Count(log', "backgrid:edited", x) = (IF x = e THEN 1 ELSE 0)
                /\ Signalled(log', e, KeyEscape) ]_vars

\* The backdrop of the second dialog opened in the behaviour was clicked,
\* after the first dialog's session had ended: the second session got the
\* abort signal.
C12_Witness ==
  /\ Len(dialogs) = 2
  /\ dialogs[1].destroyed = 1
  /\ \E i \in 1..Len(log) : log[i].op = "backdrop-click" /\ log[i].n = 2
  /\ Signalled(log, dialogs[2].owner, KeyEscape)
  /\ editors[dialogs[2].owner].removed

\* C13: a step in which edit mode is entered and the new editor's postRender
\* builds its scratch copy leaves the scratch record equal to the record's
\* attribute at that moment (the scratch rows equal to the collection built
\* from it) and the inputs holding what the form shows for that attribute,
\* whatever earlier sessions did; and a step in which save() or cancel() of
\* an editor completes leaves that editor removed and without scratch copy.
C13_ScratchFreshPerSession ==
  [][ /\ \A e \in (Len(editors) + 1)..Len(editors') :
           LET col == editors'[e].column
               d == editors'[e].dialog
           IN /\ editors'[e].hasObjectModel =>
                   /\ editors'[e].objectModel = attrs'[col]
                   /\ editors'[e].origObject = attrs'[col]
                   /\ attrs'[col] = attrs[col]
                   /\ d # 0 /\ ~dialogs'[d].touched
                   /\ \A i \in 1..Len(dialogs'[d].rows) :
                        dialogs'[d].rows[i] =
                          stringTemplate(editors'[e].opts["schema"].entries[i],
                                         get(attrs'[col], dialogs'[d].rows[i].name))
              /\ editors'[e].hasCollection =>
                   /\ editors'[e].objectCollection = newCollection(attrs'[col], 1, <<>>)
                   /\ attrs'[col] = attrs[col]
              /\ (thrown' = NoError /\ Did(log', "postRender", e)) =>
                   editors'[e].hasObjectModel \/ editors'[e].hasCollection
      /\ \A e \in 1..Len(editors) :
           ( /\ Did(log', "save", e) \/ Did(log', "cancel", e)
             /\ thrown' = NoError ) =>
             /\ editors'[e].removed
             /\ ~editors'[e].hasObjectModel
             /\ ~editors'[e].hasCollection
             /\ cells'[editors[e].column].currentEditor = 0 ]_vars

\* The address cell's first session was edited and then cancelled (the
\* record holds no typed text); its second session has just been entered and
\* its inputs hold the record's values.
C13_Witness ==
  /\ Len(editors) = 2 /\ Len(dialogs) = 2
  /\ editors[1].column = "address" /\ editors[2].column = "address"
  /\ dialogs[1].owner = 1 /\ dialogs[1].touched /\ dialogs[1].destroyed = 1
  /\ editors[1].removed
  /\ Did(log, "postRender", 2)
  /\ attrs["address"] = [street |-> Str("A"), city |-> Str("X")]
  /\ editors[2].objectModel = attrs["address"]
  /\ Len(dialogs[2].rows) = 2
  /\ dialogs[2].rows[1].value = "A" /\ dialogs[2].rows[2].value = "X"

\* C14: in a step in which edit mode is entered on a column, extendWithOptions
\* is called on the new editor exactly once, by the cell of that column: the
\* editor then carries that cell's effective options under their names and
\* nothing under any other option name, whatever the cells of the record's
\* other columns carry; and no editor of an earlier session is touched.
C14_OnlyOwnCellExtendsEditor ==
  [][ /\ \A e \in (Len(editors) + 1)..Len(editors') :
           LET col == editors'[e].column
               own == cells[col].editorOptions
           IN /\ Count(log', "extendWithOptions", e) = 1
              /\ \A i \in 1..Len(log') :
                   (log'[i].op = "extendWithOptions" /\ log'[i].ed = e) => log'[i].col = col
              /\ \A n \in OptNames :
                   editors'[e].opts[n] = (IF n \in DOMAIN own THEN own[n] ELSE Absent)
      /\ \A e \in 1..Len(editors) :
           /\ ~Did(log', "extendWithOptions", e)
           /\ editors'[e].opts = editors[e].opts ]_vars

\* Edit mode was entered on the address column while the tags cell of the
\* same record carries a custom nested grid: the address editor got the
\* schema and no grid.
C14_Witness ==
  \E e \in 1..Len(editors) :
    /\ Did(log, "extendWithOptions", e)
    /\ editors[e].column = "address"
    /\ ~cells["tags"].removed
    /\ cells["tags"].editorOptions["backgrid"] = CustomGrid
    /\ editors[e].opts["backgrid"] = Absent
    /\ editors[e].opts["gridOptions"] = Absent
    /\ editors[e].opts["schema"] = Schema(<<Street, City>>)

\* C15: a step in which save() of either editor runs leaves every attribute
\* of the record other than the one named by the editor's column as it was,
\* and writes the record at most once (exactly once when save() returns),
\* with one set of that attribute by that editor.
C15_SaveWritesOneAttributeOnce ==
  [][ \A e \in 1..Len(editors) :
        Did(log', "save", e) =>
          /\ \A c \in Columns \ {editors[e].column} : attrs'[c] = attrs[c]
          /\ \A i \in 1..Len(log') :
               log'[i].op = "set" => log'[i].col = editors[e].column /\ log'[i].ed = e
          /\ Count(log', "set", e) <= 1
          /\ thrown' = NoError => Count(log', "set", e) = 1
          /\ attrs' # attrs => Count(log', "set", e) = 1 ]_vars

\* The street input was changed to "B" and saved: the address attribute was
\* written in one set, the tags attribute of the same record is as it was.
C15_Witness ==
  \E e \in 1..Len(editors) :
    /\ IsObjectEditor(editors, e)
    /\ Did(log, "save", e)
    /\ Count(log, "set", e) = 1
    /\ attrs["address"] = [street |-> Str("B"), city |-> Str("X")]
    /\ attrs["tags"] = <<Row1, Row2>>

\* Every field the schema names is present in the value with a string.
SchemaFieldsAreStrings(entries, object) ==
  \A i \in 1..Len(entries) :
    (entries[i].kind = "object" /\ entries[i].name # "") =>
      /\ entries[i].name \in DOMAIN object
      /\ object[entries[i].name][1] = "string"

\* C16: a step in which ObjectCellEditor.save() runs in a session in which
\* no input was changed and the record was not written, on an attribute that
\* has a string under every schema field name, leaves the record's attribute
\* equal to its value at the start of the session.
C16_SaveWithoutEditsIsIdentity ==
  [][ \A e \in 1..Len(editors) :
        ( /\ IsObjectEditor(editors, e)
          /\ Did(log', "save", e)
          /\ editors[e].dialog # 0
          /\ ~dialogs[editors[e].dialog].touched
          /\ attrs[editors[e].column] = editors[e].origObject
          /\ SchemaFieldsAreStrings(editors[e].opts["schema"].entries,
                                    editors[e].origObject) ) =>
          attrs'[editors[e].column] = editors[e].origObject ]_vars

\* The same for the sessions whose schema is valid and whose strings hold no
\* double quote, where it holds.
C16_SaveWithoutEditsIsIdentityOfPlainText ==
  [][ \A e \in 1..Len(editors) :
        ( /\ IsObjectEditor(editors, e)
          /\ Did(log', "save", e)
          /\ editors[e].dialog # 0
          /\ ~dialogs[editors[e].dialog].touched
          /\ attrs[editors[e].column] = editors[e].origObject
          /\ ValidSchema(editors[e].opts["schema"])
          /\ SchemaFieldsAreStrings(editors[e].opts["schema"].entries,
                                    editors[e].origObject)
          /\ \A k \in Keys : PlainText(editors[e].origObject[k]) ) =>
          /\ attrs'[editors[e].column] = editors[e].origObject
          /\ thrown' = NoError ]_vars

====
